---- MODULE Spec2Model ----
(***************************************************************************)
(* Gameplay core of the 3-D platformer: Player (src/js/player.js), Level   *)
(* and Game (src/js/game.js) and the spatial helpers (src/js/utils.js).    *)
(*                                                                         *)
(* Numbers are fixed point: one model unit is 0.005 world units, so that   *)
(* every constant of the code is an integer (speed 0.15 = 30, run speed    *)
(* 0.225 = 45, jumpForce 0.4 = 80, gravity -0.02 = -4, radius 1.5 = 300,   *)
(* floor 1 = 200).  The friction product v * 0.8 is truncated toward zero  *)
(* to the unit.  Distances are compared squared, which is exact.           *)
(***************************************************************************)
EXTENDS Integers, Sequences, FiniteSets, TLC

VARIABLES
    player,     \* the Player instance: position, velocity, flags, lives, keys
    level,      \* the Level instance: entity collections, levelData, totalCoins
    gameState,  \* Game.gameState
    loads,      \* Game.loadLevel invocations in flight (async functions)
    timers,     \* pending setTimeout(() => game.playerDied(), 1000) callbacks
    message,    \* the #gameMessage modal: visibility, title, button onclick
    frame,      \* animation frames run so far (requestAnimationFrame id)
    rendered    \* whether the last animation frame called Game.render

vars == <<player, level, gameState, loads, timers, message, frame, rendered>>

(***************************************************************************)
(* Bounds of the model.                                                    *)
(***************************************************************************)
MaxFrames == 4
MaxPlayFrames == 5
MaxJumpFrames == 44
MaxLoads == 1
MaxOverlap == 2
MaxPauseFrames == 3
MaxFloat == 1
MaxArenaFrames == 3
MaxAdvanceFrames == 3
MaxReplayFrames == 4
MaxLevelFrames == 2

(***************************************************************************)
(* Program constants, in model units.                                      *)
(***************************************************************************)
Speed == 30
JumpForce == 80
Gravity == -4
StartLives == 3
FloorY == 200
AirY == 220
PlatformSnap == 400
CollideRadius == 300
KnockUp == 40
FallY == -4000
MaxDistance == 20000
PlatformThreshold == 600
BandLow == 100
BandHigh == 600
DefaultSpawnY == 1000
LastLevel == 3
FlagRadius == 600

Min(a, b) == IF a < b THEN a ELSE b
Max(a, b) == IF a > b THEN a ELSE b

\* JavaScript's product with a fraction n/d of an integer number of units,
\* truncated toward zero.
Trunc(n, d) == IF n >= 0 THEN n \div d ELSE -((-n) \div d)

Vec(x, y, z) == [x |-> x, y |-> y, z |-> z]

\* Utils.clamp
Clamp(value, min, max) == Max(min, Min(max, value))

\* Utils.distance, squared
Distance2(a, b) ==
    (a.x - b.x) * (a.x - b.x) + (a.y - b.y) * (a.y - b.y) + (a.z - b.z) * (a.z - b.z)

\* Utils.isColliding(obj1, obj2, threshold)
IsColliding(obj1, obj2, threshold) ==
    Distance2(obj1.position, obj2.position) < threshold * threshold

\* isOnPlatform whose three comparisons admit equality
IsOnPlatformInclusive(p, platform) ==
    LET dx == p.position.x - platform.position.x
        dz == p.position.z - platform.position.z
        verticalDistance == p.position.y - platform.position.y
    IN  /\ dx * dx + dz * dz <= PlatformThreshold * PlatformThreshold
        /\ verticalDistance >= BandLow
        /\ verticalDistance <= BandHigh

\* Utils.isOnPlatform(player, platform) with the default threshold
IsOnPlatform(p, platform) ==
    LET dx == p.position.x - platform.position.x
        dz == p.position.z - platform.position.z
        verticalDistance == p.position.y - platform.position.y
    IN  /\ dx * dx + dz * dz < PlatformThreshold * PlatformThreshold
        /\ verticalDistance > BandLow
        /\ verticalDistance < BandHigh

(***************************************************************************)
(* Level descriptors: the content of levels/level<n>.json.  A level        *)
(* descriptor is a record of entry sequences; spawn and goal are optional  *)
(* (a sequence of length 0 or 1).  An entry without type has type "".      *)
(***************************************************************************)
Entry(type, x, y, z) == [type |-> type, position |-> Vec(x, y, z)]

NoData ==
    [platforms |-> <<>>, collectibles |-> <<>>, hazards |-> <<>>,
     environment |-> <<>>, interactive |-> <<>>, spawn |-> <<>>, goal |-> <<>>]

LevelFile(n) ==
    CASE n = 1 ->
           [NoData EXCEPT
              !.platforms = <<Entry("grass", 0, -200, 0)>>,
              !.collectibles = <<Entry("coin-gold", 320, 200, 0),
                                 Entry("heart", -320, 200, 0)>>,
              !.hazards = <<Entry("spike", 350, 200, 0), Entry("saw", 350, 200, 0)>>,
              !.spawn = <<Vec(0, 200, 0)>>]
      [] n = 2 ->
           [NoData EXCEPT
              !.collectibles = <<Entry("coin-silver", 0, 200, 0),
                                 Entry("jewel", 0, 200, 0),
                                 Entry("coin-bronze", 0, 200, 0)>>,
              !.hazards = <<Entry("bomb", 0, 200, 0)>>,
              !.spawn = <<Vec(20, 200, 0)>>,
              !.goal = <<[type |-> "collect_all_coins", count |-> 0]>>]
      [] OTHER ->
           [NoData EXCEPT
              !.platforms = <<Entry("platform", 0, -300, 0)>>,
              !.collectibles = <<Entry("key", 0, 200, 0), Entry("gem", 0, 200, 0),
                                 Entry("", 0, 200, 0)>>,
              !.hazards = <<Entry("trap", 0, 200, 0)>>,
              !.environment = <<Entry("tree", 0, 200, 900)>>,
              !.interactive = <<Entry("flag", 640, 200, 0)>>,
              !.spawn = <<Vec(-20, 200, 0)>>,
              !.goal = <<[type |-> "reach_flag", count |-> 0]>>]

(***************************************************************************)
(* Player                                                                  *)
(***************************************************************************)
\* Player.handleKeyDown / handleKeyUp: the key field a key code drives
KeyField(code) ==
    CASE code \in {"KeyW", "ArrowUp"} -> "forward"
      [] code \in {"KeyS", "ArrowDown"} -> "backward"
      [] code \in {"KeyA", "ArrowLeft"} -> "left"
      [] code \in {"KeyD", "ArrowRight"} -> "right"
      [] code = "Space" -> "space"
      [] code \in {"ShiftLeft", "ShiftRight"} -> "shift"

\* the key codes the user walks with in the model
WalkCodes == {"ArrowLeft", "ArrowRight"}

\* new Player(scene); color is the colour of the mesh's material: "green"
\* (0x4CAF50), "red" (0xFF0000, the feedback of a hit) or "grey" (0x666666, dead)
NewPlayer ==
    [position |-> Vec(0, DefaultSpawnY, 0), velocity |-> Vec(0, 0, 0),
     isGrounded |-> FALSE, isJumping |-> FALSE,
     lives |-> StartLives, isAlive |-> TRUE, keys |-> {}, color |-> "green"]

CurrentSpeed(p) == IF "shift" \in p.keys THEN Trunc(Speed * 3, 2) ELSE Speed

\* a jump accepted in mid-air: the grounded test is missing
JumpTriggeredAirborne(p) == "space" \in p.keys /\ ~p.isJumping

\* the condition of the jump in updateMovement
JumpTriggered(p) == "space" \in p.keys /\ p.isGrounded /\ ~p.isJumping

\* updateMovement whose jump leaves isGrounded set, so that updatePhysics
\* applies no gravity in the tick of the jump
UpdateMovementKeepGrounded(p) ==
    LET currentSpeed == CurrentSpeed(p)
        maxSpeed == Trunc(currentSpeed * 6, 5)
        vx == IF "left" \in p.keys THEN -currentSpeed
              ELSE IF "right" \in p.keys THEN currentSpeed
              ELSE Trunc(p.velocity.x * 4, 5)
        vz == IF "forward" \in p.keys THEN -currentSpeed
              ELSE IF "backward" \in p.keys THEN currentSpeed
              ELSE Trunc(p.velocity.z * 4, 5)
        jump == JumpTriggered(p)
    IN  [p EXCEPT
           !.velocity = Vec(Clamp(vx, -maxSpeed, maxSpeed),
                            IF jump THEN JumpForce ELSE p.velocity.y,
                            Clamp(vz, -maxSpeed, maxSpeed)),
           !.isJumping = IF jump THEN TRUE ELSE @]

\* updateMovement without the limit of the horizontal speed
UpdateMovementUnlimited(p) ==
    LET currentSpeed == CurrentSpeed(p)
        vx == IF "left" \in p.keys THEN -currentSpeed
              ELSE IF "right" \in p.keys THEN currentSpeed
              ELSE Trunc(p.velocity.x * 4, 5)
        vz == IF "forward" \in p.keys THEN -currentSpeed
              ELSE IF "backward" \in p.keys THEN currentSpeed
              ELSE Trunc(p.velocity.z * 4, 5)
        jump == JumpTriggered(p)
    IN  [p EXCEPT
           !.velocity = Vec(vx, IF jump THEN JumpForce ELSE p.velocity.y, vz),
           !.isGrounded = IF jump THEN FALSE ELSE @,
           !.isJumping = IF jump THEN TRUE ELSE @]

\* Player.updateMovement
UpdateMovement(p) ==
    LET currentSpeed == CurrentSpeed(p)
        maxSpeed == Trunc(currentSpeed * 6, 5)
        vx == IF "left" \in p.keys THEN -currentSpeed
              ELSE IF "right" \in p.keys THEN currentSpeed
              ELSE Trunc(p.velocity.x * 4, 5)
        vz == IF "forward" \in p.keys THEN -currentSpeed
              ELSE IF "backward" \in p.keys THEN currentSpeed
              ELSE Trunc(p.velocity.z * 4, 5)
        jump == JumpTriggered(p)
    IN  [p EXCEPT
           !.velocity = Vec(Clamp(vx, -maxSpeed, maxSpeed),
                            IF jump THEN JumpForce ELSE p.velocity.y,
                            Clamp(vz, -maxSpeed, maxSpeed)),
           !.isGrounded = IF jump THEN FALSE ELSE @,
           !.isJumping = IF jump THEN TRUE ELSE @]

\* updatePhysics without its ground check: nothing stops the fall at y = 1
UpdatePhysicsNoFloor(p) ==
    LET vy == IF ~p.isGrounded THEN p.velocity.y + Gravity ELSE p.velocity.y
    IN  [p EXCEPT !.position = Vec(p.position.x + p.velocity.x, p.position.y + vy,
                                   p.position.z + p.velocity.z),
                  !.velocity = [@ EXCEPT !.y = vy]]

\* Player.updatePhysics
UpdatePhysics(p) ==
    LET vy == IF ~p.isGrounded THEN p.velocity.y + Gravity ELSE p.velocity.y
        pos == Vec(p.position.x + p.velocity.x, p.position.y + vy,
                   p.position.z + p.velocity.z)
    IN  IF pos.y <= FloorY
        THEN [p EXCEPT !.position = [pos EXCEPT !.y = FloorY],
                       !.velocity = [@ EXCEPT !.y = 0],
                       !.isGrounded = TRUE, !.isJumping = FALSE]
        ELSE [p EXCEPT !.position = pos, !.velocity = [@ EXCEPT !.y = vy]]

\* a landing on a platform that leaves isJumping as it was
LandOnKeepJumping(p, platform) ==
    [p EXCEPT !.position = [@ EXCEPT !.y = platform.position.y + PlatformSnap],
              !.velocity = [@ EXCEPT !.y = 0],
              !.isGrounded = TRUE]

\* one iteration of the forEach of checkPlatformCollisions
LandOn(p, platform) ==
    [p EXCEPT !.position = [@ EXCEPT !.y = platform.position.y + PlatformSnap],
              !.velocity = [@ EXCEPT !.y = 0],
              !.isGrounded = TRUE, !.isJumping = FALSE]

RECURSIVE PlatformLoop(_, _, _, _)
PlatformLoop(p, platforms, i, onPlatform) ==
    IF i > Len(platforms)
    THEN IF ~onPlatform /\ p.position.y > AirY
         THEN [p EXCEPT !.isGrounded = FALSE]
         ELSE p
    ELSE IF IsOnPlatform(p, platforms[i]) /\ p.velocity.y <= 0
         THEN PlatformLoop(LandOn(p, platforms[i]), platforms, i + 1, TRUE)
         ELSE PlatformLoop(p, platforms, i + 1, onPlatform)

\* checkPlatformCollisions without the test of the vertical velocity: a player
\* inside a platform's band is snapped to it even while rising
RECURSIVE PlatformLoopRising(_, _, _, _)
PlatformLoopRising(p, platforms, i, onPlatform) ==
    IF i > Len(platforms)
    THEN IF ~onPlatform /\ p.position.y > AirY
         THEN [p EXCEPT !.isGrounded = FALSE]
         ELSE p
    ELSE IF IsOnPlatform(p, platforms[i])
         THEN PlatformLoopRising(LandOn(p, platforms[i]), platforms, i + 1, TRUE)
         ELSE PlatformLoopRising(p, platforms, i + 1, onPlatform)

CheckPlatformsRising(p, platforms) == PlatformLoopRising(p, platforms, 1, FALSE)

\* Player.checkPlatformCollisions
CheckPlatformCollisions(p, platforms) == PlatformLoop(p, platforms, 1, FALSE)

(***************************************************************************)
(* Player.update mutates the player, the collectibles it is handed, the    *)
(* game's score and coins (through the global game) and the timer queue    *)
(* (die).  These travel together as a record w.                            *)
(***************************************************************************)
World(p, collectibles, gs, tm) ==
    [player |-> p, collectibles |-> collectibles,
     score |-> gs.score, coins |-> gs.coins, timers |-> tm]

\* collectItem with the scores of the heart and the gold coin exchanged
ItemScoreSwapped(type) ==
    CASE type = "coin-gold" -> 200
      [] type = "coin-silver" -> 50
      [] type = "coin-bronze" -> 25
      [] type = "heart" -> 100
      [] type = "jewel" -> 500
      [] type = "key" -> 300
      [] OTHER -> 50

\* the points game.addScore receives for a collectible type in collectItem
ItemScore(type) ==
    CASE type = "coin-gold" -> 100
      [] type = "coin-silver" -> 50
      [] type = "coin-bronze" -> 25
      [] type = "heart" -> 200
      [] type = "jewel" -> 500
      [] type = "key" -> 300
      [] OTHER -> 50

\* whether collectItem calls game.addCoin for a collectible type
ItemAddsCoin(type) == type \notin {"heart", "jewel", "key"}

\* Player.collectItem, with Player.addLife, Game.addScore and Game.addCoin
CollectItem(w, i) ==
    LET type == IF w.collectibles[i].type = "" THEN "coin" ELSE w.collectibles[i].type
    IN  [w EXCEPT
           !.collectibles[i].collected = TRUE,
           !.collectibles[i].visible = FALSE,
           !.score = @ + ItemScore(type),
           !.coins = IF ItemAddsCoin(type) THEN @ + 1 ELSE @,
           !.player.lives = IF type = "heart" THEN @ + 1 ELSE @]

RECURSIVE CollectibleLoop(_, _)
CollectibleLoop(w, i) ==
    IF i > Len(w.collectibles) THEN w
    ELSE IF ~w.collectibles[i].collected
            /\ IsColliding(w.player, w.collectibles[i], CollideRadius)
         THEN CollectibleLoop(CollectItem(w, i), i + 1)
         ELSE CollectibleLoop(w, i + 1)

\* checkCollectibleCollisions without the test of the collected flag
RECURSIVE CollectInRange(_, _)
CollectInRange(w, i) ==
    IF i > Len(w.collectibles) THEN w
    ELSE IF IsColliding(w.player, w.collectibles[i], CollideRadius)
         THEN CollectInRange(CollectItem(w, i), i + 1)
         ELSE CollectInRange(w, i + 1)

CheckCollectedToo(w) == CollectInRange(w, 1)

\* Player.checkCollectibleCollisions
CheckCollectibleCollisions(w) == CollectibleLoop(w, 1)

\* die that never tells the game
DieUnreported(w) == [w EXCEPT !.player.isAlive = FALSE, !.player.color = "grey"]

\* Player.die
Die(w) == [w EXCEPT !.player.isAlive = FALSE, !.player.color = "grey",
                    !.timers = @ + 1]

\* takeDamage without its early return for a dead player
TakeDamageUnguarded(w) ==
    LET hit == [w EXCEPT
                  !.player.lives = @ - 1,
                  !.player.velocity = Vec(-2 * @.x, KnockUp, -2 * @.z)]
    IN  IF hit.player.lives <= 0 THEN Die(hit)
        ELSE [hit EXCEPT !.player.color = "red"]

\* Player.takeDamage; a hit that is not fatal paints the mesh red and sets the
\* 500 ms timeout that paints it green again
TakeDamage(w) ==
    IF ~w.player.isAlive THEN w
    ELSE LET hit == [w EXCEPT
                       !.player.lives = @ - 1,
                       !.player.velocity = Vec(-2 * @.x, KnockUp, -2 * @.z)]
         IN  IF hit.player.lives <= 0 THEN Die(hit)
             ELSE [hit EXCEPT !.player.color = "red"]

RECURSIVE HazardLoop(_, _, _)
HazardLoop(w, hazards, i) ==
    IF i > Len(hazards) THEN w
    ELSE IF IsColliding(w.player, hazards[i], CollideRadius)
         THEN HazardLoop(TakeDamage(w), hazards, i + 1)
         ELSE HazardLoop(w, hazards, i + 1)

\* checkHazardCollisions that takes as many lives as the hazard's damage says
RECURSIVE TakeDamageTimes(_, _)
TakeDamageTimes(w, n) == IF n = 0 THEN w ELSE TakeDamageTimes(TakeDamage(w), n - 1)

RECURSIVE HazardLoopByDamage(_, _, _)
HazardLoopByDamage(w, hazards, i) ==
    IF i > Len(hazards) THEN w
    ELSE IF IsColliding(w.player, hazards[i], CollideRadius)
         THEN HazardLoopByDamage(TakeDamageTimes(w, hazards[i].damage), hazards, i + 1)
         ELSE HazardLoopByDamage(w, hazards, i + 1)

CheckHazardsByDamage(w, hazards) == HazardLoopByDamage(w, hazards, 1)

\* Player.checkHazardCollisions
CheckHazardCollisions(w, hazards) == HazardLoop(w, hazards, 1)

\* Player.respawn
Respawn(p) ==
    [p EXCEPT !.position = Vec(0, DefaultSpawnY, 0), !.velocity = Vec(0, 0, 0),
              !.isGrounded = FALSE, !.isJumping = FALSE]

\* Player.checkBoundaries
CheckBoundaries(w) ==
    LET fell == IF w.player.position.y < FallY
                THEN [TakeDamage(w) EXCEPT !.player = Respawn(@)]
                ELSE w
    IN  [fell EXCEPT
           !.player.position.x = Clamp(@, -MaxDistance, MaxDistance),
           !.player.position.z = Clamp(@, -MaxDistance, MaxDistance)]

\* the first four steps of Player.update: updateMovement, updatePhysics,
\* checkPlatformCollisions, checkCollectibleCollisions
MoveAndCollect(w, platforms) ==
    CheckCollectibleCollisions(
        [w EXCEPT !.player = CheckPlatformCollisions(
                                 UpdatePhysics(UpdateMovement(w.player)), platforms)])

\* update without its early return for a dead player
PlayerUpdateWhenDead(w, platforms, hazards) ==
    CheckBoundaries(CheckHazardCollisions(MoveAndCollect(w, platforms), hazards))

\* Player.update(platforms, collectibles, hazards)
PlayerUpdate(w, platforms, hazards) ==
    IF ~w.player.isAlive THEN w
    ELSE CheckBoundaries(CheckHazardCollisions(MoveAndCollect(w, platforms), hazards))

\* Player.reset(spawnPosition)
Reset(p, spawnPosition) ==
    [p EXCEPT !.position = spawnPosition, !.velocity = Vec(0, 0, 0),
              !.isGrounded = FALSE, !.isJumping = FALSE, !.isAlive = TRUE,
              !.color = "green"]

(***************************************************************************)
(* Level                                                                   *)
(***************************************************************************)
Categories == <<"platforms", "collectibles", "hazards", "environment", "interactive">>

\* new Level(scene, gltfLoader); levelData null reads like an empty descriptor
NewLevel ==
    [platforms |-> <<>>, collectibles |-> <<>>, hazards |-> <<>>,
     environment |-> <<>>, interactive |-> <<>>,
     levelData |-> NoData, currentLevel |-> 1, totalCoins |-> 0]

\* Level.clearLevel
ClearLevel(lv) ==
    [lv EXCEPT !.platforms = <<>>, !.collectibles = <<>>, !.hazards = <<>>,
               !.environment = <<>>, !.interactive = <<>>, !.totalCoins = 0]

\* this.assetPaths: the types of a category that have a model file
AssetPaths(category) ==
    CASE category = "platforms" ->
           {"grass", "grass-large", "grass-corner", "grass-curve", "platform",
            "platform-ramp"}
      [] category = "collectibles" ->
           {"coin-gold", "coin-silver", "coin-bronze", "heart", "jewel", "key"}
      [] category = "environment" ->
           {"tree", "tree-pine", "rocks", "grass", "flowers"}
      [] category = "interactive" ->
           {"crate", "chest", "button", "door", "lever", "flag"}
      [] category = "hazards" -> {"spike", "saw", "trap", "bomb"}
      [] OTHER -> {"fence", "ladder", "poles"}

\* Level.createFallbackObject: the placeholder mesh, transformed as the entry says
CreateFallbackObject(data) ==
    [type |-> data.type, position |-> data.position, mesh |-> "fallback"]

\* Level.createObject; loaded tells whether the model is cached or loadModel
\* resolves (it is not read when the type has no asset path)
CreateObject(category, data, loaded) ==
    IF data.type \notin AssetPaths(category) THEN CreateFallbackObject(data)
    ELSE IF loaded
         THEN [type |-> data.type, position |-> data.position, mesh |-> "model"]
         ELSE CreateFallbackObject(data)

\* the object createPlatforms .. createInteractive make of a descriptor entry:
\* createObject's result with the category's userData
CreateEntity(category, data, loaded) ==
    LET object == CreateObject(category, data, loaded)
    IN  CASE category = "collectibles" ->
               [type |-> object.type, position |-> object.position,
                mesh |-> object.mesh, collected |-> FALSE,
                visible |-> TRUE, originalPosition |-> object.position]
          [] category = "hazards" ->
               \* damage: hazardData.damage || 1
               [type |-> object.type, position |-> object.position,
                mesh |-> object.mesh,
                damage |-> IF "damage" \in DOMAIN data /\ data.damage # 0
                           THEN data.damage ELSE 1]
          [] category = "interactive" ->
               [type |-> object.type, position |-> object.position,
                mesh |-> object.mesh, action |-> "none"]
          [] OTHER -> object

\* create* that drops the entries whose model did not load
PushModelOnly(lv, category, object) ==
    IF object.mesh = "fallback" THEN lv
    ELSE [lv EXCEPT ![category] = Append(@, object)]

\* if (object) { this.<category>.push(object) }: createObject returns an object
\* on every path
PushObject(lv, category, object) == [lv EXCEPT ![category] = Append(@, object)]

\* type && type.includes('coin')
IsCoinType(type) == type \in {"coin-gold", "coin-silver", "coin-bronze", "coin"}

\* Level.countTotalCoins
CountTotalCoins(lv) ==
    [lv EXCEPT !.totalCoins =
        Cardinality({i \in 1..Len(lv.collectibles) : IsCoinType(lv.collectibles[i].type)})]

\* Level.update: animateFloat moves every collectible not yet collected by
\* sin(Date.now() * 0.005) * 0.02 * 0.016, here dy units (rotation is not modelled)
LevelUpdate(lv, dy) ==
    [lv EXCEPT !.collectibles =
        [i \in 1..Len(@) |->
            IF @[i].collected THEN @[i]
            ELSE [@[i] EXCEPT !.position.y = @ + dy]]]

\* Level.getPlayerSpawnPosition
GetPlayerSpawnPosition(lv) ==
    IF lv.levelData.spawn # <<>>
    THEN LET spawn == lv.levelData.spawn[1]
         IN  Vec(spawn.x, IF spawn.y = 0 THEN DefaultSpawnY ELSE spawn.y, spawn.z)
    ELSE Vec(0, DefaultSpawnY, 0)

\* Level.getLevelGoal
GetLevelGoal(lv) ==
    IF lv.levelData.goal # <<>> THEN lv.levelData.goal[1]
    ELSE [type |-> "collect_all_coins", count |-> 0]

\* checkLevelComplete that takes the first interactive object for the flag and
\* reads the count of collect_hearts without its default
CheckLevelCompleteLoose(lv, p) ==
    LET goal == GetLevelGoal(lv)
        collectedCoins ==
            Cardinality({i \in 1..Len(lv.collectibles) :
                IsCoinType(lv.collectibles[i].type) /\ lv.collectibles[i].collected})
        collectedHearts ==
            Cardinality({i \in 1..Len(lv.collectibles) :
                lv.collectibles[i].type = "heart" /\ lv.collectibles[i].collected})
    IN  CASE goal.type = "collect_all_coins" -> collectedCoins >= lv.totalCoins
          [] goal.type = "reach_flag" ->
               /\ lv.interactive # <<>>
               /\ Distance2(p.position, lv.interactive[1].position)
                      < FlagRadius * FlagRadius
          [] goal.type = "collect_hearts" -> collectedHearts >= goal.count
          [] OTHER -> FALSE

\* Level.checkLevelComplete
CheckLevelComplete(lv, p) ==
    LET goal == GetLevelGoal(lv)
        collectedCoins ==
            Cardinality({i \in 1..Len(lv.collectibles) :
                IsCoinType(lv.collectibles[i].type) /\ lv.collectibles[i].collected})
        flags == {i \in 1..Len(lv.interactive) : lv.interactive[i].type = "flag"}
        collectedHearts ==
            Cardinality({i \in 1..Len(lv.collectibles) :
                lv.collectibles[i].type = "heart" /\ lv.collectibles[i].collected})
    IN  CASE goal.type = "collect_all_coins" -> collectedCoins >= lv.totalCoins
          [] goal.type = "reach_flag" ->
               /\ flags # {}
               /\ LET flag == lv.interactive[CHOOSE i \in flags : \A j \in flags : i <= j]
                  IN  Distance2(p.position, flag.position) < FlagRadius * FlagRadius
          [] goal.type = "collect_hearts" ->
               collectedHearts >= (IF goal.count = 0 THEN 1 ELSE goal.count)
          [] OTHER -> FALSE

\* resetCollectibles that leaves every position where animateFloat moved it
ResetFlagsOnly(lv) ==
    [lv EXCEPT !.collectibles =
        [i \in 1..Len(@) |-> [@[i] EXCEPT !.collected = FALSE, !.visible = TRUE]]]

\* Level.resetCollectibles
ResetCollectibles(lv) ==
    [lv EXCEPT !.collectibles =
        [i \in 1..Len(@) |->
            [@[i] EXCEPT !.collected = FALSE, !.visible = TRUE,
                         !.position = lv.collectibles[i].originalPosition]]]

(***************************************************************************)
(* Game                                                                    *)
(***************************************************************************)
\* the gameState of new Game() (the asset counters are not modelled)
NewGameState ==
    [isPlaying |-> FALSE, isPaused |-> FALSE, currentLevel |-> 1,
     score |-> 0, coins |-> 0, lives |-> StartLives]

\* the hidden #gameMessage element
NoMessage == [visible |-> FALSE, title |-> "", onclick |-> [kind |-> "none", n |-> 0]]

\* Utils.showMessage(title, text, buttonText, callback); the callback is one of
\* the four closures of game.js: loadLevel(n), play again, restartGame, hide
ShowMessage(title, kind, n) ==
    [visible |-> TRUE, title |-> title, onclick |-> [kind |-> kind, n |-> n]]

\* Utils.hideMessage
HideMessage(m) == [m EXCEPT !.visible = FALSE]

\* Game.levelComplete
LevelComplete(gs) ==
    LET nextLevel == gs.currentLevel + 1
    IN  IF nextLevel <= LastLevel
        THEN ShowMessage("Level Complete!", "loadLevel", nextLevel)
        ELSE ShowMessage("Game Complete!", "playAgain", 1)

\* Game.showError
ShowError == ShowMessage("Error", "hide", 0)

\* the vertical steps animateFloat may take in one frame
FloatSteps(collectibles) ==
    {dy \in {-1, 0, 1} :
        \A i \in 1..Len(collectibles) :
            \/ collectibles[i].collected
            \/ LET off == collectibles[i].position.y + dy
                          - collectibles[i].originalPosition.y
               IN  off <= MaxFloat /\ -off <= MaxFloat}

\* update that animates the level before it updates the player
GameUpdateLevelFirst ==
    \E dy \in FloatSteps(level.collectibles) :
        LET floated == LevelUpdate(level, dy)
            w == PlayerUpdate(World(player, floated.collectibles, gameState, timers),
                              level.platforms, level.hazards)
            lv == [level EXCEPT !.collectibles = w.collectibles]
        IN  /\ player' = w.player
            /\ level' = lv
            /\ gameState' = [gameState EXCEPT !.score = w.score, !.coins = w.coins]
            /\ timers' = w.timers
            /\ message' = IF CheckLevelComplete(lv, w.player)
                          THEN LevelComplete(gameState)
                          ELSE message
            /\ UNCHANGED loads

\* Game.update
GameUpdate ==
    LET w == PlayerUpdate(World(player, level.collectibles, gameState, timers),
                          level.platforms, level.hazards)
    IN  \E dy \in FloatSteps(w.collectibles) :
            LET lv == LevelUpdate([level EXCEPT !.collectibles = w.collectibles], dy)
            IN  /\ player' = w.player
                /\ level' = lv
                /\ gameState' = [gameState EXCEPT !.score = w.score, !.coins = w.coins]
                /\ timers' = w.timers
                /\ message' = IF CheckLevelComplete(lv, w.player)
                              THEN LevelComplete(gameState)
                              ELSE message
                /\ UNCHANGED loads

\* Game.animate: one animation frame, of at most max
AnimateWithin(max) ==
    /\ gameState.isPlaying
    /\ frame < max
    /\ frame' = frame + 1
    /\ rendered' = ~gameState.isPaused
    /\ IF gameState.isPaused
       THEN UNCHANGED <<player, level, gameState, loads, timers, message>>
       ELSE GameUpdate

Animate == AnimateWithin(MaxFrames)

AnimatePlay == AnimateWithin(MaxPlayFrames)

AnimateJump == AnimateWithin(MaxJumpFrames)

AnimatePause == AnimateWithin(MaxPauseFrames)

\* Game.restartLevel
RestartLevel ==
    /\ player' = [Reset(player, GetPlayerSpawnPosition(level))
                    EXCEPT !.lives = gameState.lives]
    /\ level' = ResetCollectibles(level)
    /\ gameState' = [gameState EXCEPT !.coins = 0]

\* the synchronous start of Game.loadLevel(n): Level.loadLevel runs clearLevel
\* and then awaits the descriptor
StartLoadWithin(n, max) ==
    /\ Len(loads) < max
    /\ level' = ClearLevel(level)
    /\ loads' = Append(loads, [n |-> n, pc |-> "json", cat |-> 0,
                               items |-> <<>>, init |-> FALSE])

StartLoad(n) == StartLoadWithin(n, MaxLoads)

\* restartGame that forgets the player's lives
RestartGameKeepsLives ==
    /\ gameState' = [gameState EXCEPT !.score = 0, !.coins = 0,
                                      !.lives = StartLives, !.currentLevel = 1]
    /\ player' = [player EXCEPT !.isAlive = TRUE]
    /\ StartLoad(1)

\* Game.restartGame
RestartGame ==
    /\ gameState' = [gameState EXCEPT !.score = 0, !.coins = 0,
                                      !.lives = StartLives, !.currentLevel = 1]
    /\ player' = [player EXCEPT !.lives = StartLives, !.isAlive = TRUE]
    /\ StartLoad(1)

\* Game.playerDied, run by the timer Player.die set
PlayerDied ==
    /\ timers > 0
    /\ timers' = timers - 1
    /\ IF gameState.lives <= 0
       THEN /\ message' = ShowMessage("Game Over", "restartGame", 0)
            /\ UNCHANGED <<player, level, gameState, loads, frame, rendered>>
       ELSE /\ RestartLevel
            /\ UNCHANGED <<loads, message, frame, rendered>>

\* keydown / keyup on the Player's listeners
KeyDown(code) ==
    /\ KeyField(code) \notin player.keys
    /\ player' = [player EXCEPT !.keys = @ \cup {KeyField(code)}]
    /\ UNCHANGED <<level, gameState, loads, timers, message, frame, rendered>>

KeyUp(code) ==
    /\ KeyField(code) \in player.keys
    /\ player' = [player EXCEPT !.keys = @ \ {KeyField(code)}]
    /\ UNCHANGED <<level, gameState, loads, timers, message, frame, rendered>>

\* keydown KeyR
PressR ==
    /\ RestartLevel
    /\ UNCHANGED <<loads, timers, message, frame, rendered>>

\* nextLevel without its test of the last level
NextLevelUnchecked(max) ==
    /\ StartLoadWithin(gameState.currentLevel + 1, max)
    /\ UNCHANGED <<player, gameState, timers, message, frame, rendered>>

\* keydown KeyN: Game.nextLevel, with at most max loads in flight
NextLevelWithin(max) ==
    LET nextLevel == gameState.currentLevel + 1
    IN  IF nextLevel <= LastLevel
        THEN /\ StartLoadWithin(nextLevel, max)
             /\ UNCHANGED <<player, gameState, timers, message, frame, rendered>>
        ELSE UNCHANGED vars

PressN == NextLevelWithin(MaxLoads)

\* the N key pressed again while a load is still in flight
PressNLoading == NextLevelWithin(MaxOverlap)

\* the N key pressed only when every load has returned
PressNIdle ==
    /\ loads = <<>>
    /\ PressN

\* a pause key that pauses and never resumes
PressPSticky ==
    /\ gameState' = [gameState EXCEPT !.isPaused = TRUE]
    /\ UNCHANGED <<player, level, loads, timers, message, frame, rendered>>

\* keydown KeyP / Escape: Game.togglePause
PressP ==
    /\ gameState' = [gameState EXCEPT !.isPaused = ~@]
    /\ UNCHANGED <<player, level, loads, timers, message, frame, rendered>>

\* Game.resumeGame, the pause menu's button
ResumeGame ==
    /\ gameState.isPaused
    /\ gameState' = [gameState EXCEPT !.isPaused = FALSE]
    /\ UNCHANGED <<player, level, loads, timers, message, frame, rendered>>

\* the restart-game command: Game.restartGame called from outside the message
RestartGameCommand ==
    /\ RestartGame
    /\ UNCHANGED <<timers, message, frame, rendered>>

\* a click on the message's button runs the callback showMessage installed
ClickMessage ==
    /\ message.visible
    /\ message' = HideMessage(message)
    /\ CASE message.onclick.kind = "loadLevel" ->
              /\ StartLoad(message.onclick.n)
              /\ UNCHANGED <<player, gameState, timers, frame, rendered>>
         [] message.onclick.kind = "playAgain" ->
              /\ StartLoad(1)
              /\ gameState' = [gameState EXCEPT !.score = 0]
              /\ UNCHANGED <<player, timers, frame, rendered>>
         [] message.onclick.kind = "restartGame" ->
              /\ RestartGame
              /\ UNCHANGED <<timers, frame, rendered>>
         [] OTHER ->
              UNCHANGED <<player, level, gameState, loads, timers, frame, rendered>>

(***************************************************************************)
(* The asynchronous part of Game.loadLevel / Level.loadLevel.  A load in   *)
(* flight waits either for the descriptor (pc = "json") or for the         *)
(* createObject of the first of items, the rest of the category's array it *)
(* iterates (pc = "build").                                                *)
(***************************************************************************)
RemoveAt(s, i) == [j \in 1..(Len(s) - 1) |-> IF j < i THEN s[j] ELSE s[j + 1]]

\* the next create* call, after category cat, that has an entry to await: each
\* reads this.levelData when it starts
NextCategory(lv, cat) ==
    LET later == {c \in (cat + 1)..Len(Categories) : lv.levelData[Categories[c]] # <<>>}
    IN  IF later = {} THEN 0 ELSE CHOOSE c \in later : \A d \in later : c <= d

\* a load whose success branch also clears the score
ContinueClearsScore(i, lv, cat) ==
    LET c == NextCategory(lv, cat)
    IN  IF c # 0
        THEN /\ level' = lv
             /\ loads' = [loads EXCEPT ![i] = [@ EXCEPT !.pc = "build", !.cat = c,
                              !.items = lv.levelData[Categories[c]]]]
             /\ UNCHANGED <<player, gameState, message>>
        ELSE /\ level' = CountTotalCoins(lv)
             /\ loads' = RemoveAt(loads, i)
             /\ player' = Reset(player, GetPlayerSpawnPosition(lv))
             /\ gameState' = [gameState EXCEPT
                                !.currentLevel = loads[i].n, !.coins = 0, !.score = 0,
                                !.isPlaying = IF loads[i].init THEN TRUE ELSE @,
                                !.isPaused = IF loads[i].init THEN FALSE ELSE @]
             /\ UNCHANGED message

\* Level.loadLevel and Game.loadLevel from the point where load ld has finished
\* category cat with the level lv
Continue(i, lv, cat) ==
    LET c == NextCategory(lv, cat)
    IN  IF c # 0
        THEN /\ level' = lv
             /\ loads' = [loads EXCEPT ![i] = [@ EXCEPT !.pc = "build", !.cat = c,
                              !.items = lv.levelData[Categories[c]]]]
             /\ UNCHANGED <<player, gameState, message>>
        ELSE \* countTotalCoins, return true; Game.loadLevel's success branch,
             \* and startGame when Game.init awaited this load
             /\ level' = CountTotalCoins(lv)
             /\ loads' = RemoveAt(loads, i)
             /\ player' = Reset(player, GetPlayerSpawnPosition(lv))
             /\ gameState' = [gameState EXCEPT
                                !.currentLevel = loads[i].n, !.coins = 0,
                                !.isPlaying = IF loads[i].init THEN TRUE ELSE @,
                                !.isPaused = IF loads[i].init THEN FALSE ELSE @]
             /\ UNCHANGED message

\* Utils.loadJSON resolves with the descriptor
LoadJSON(i) ==
    /\ loads[i].pc = "json"
    /\ Continue(i, [level EXCEPT !.levelData = LevelFile(loads[i].n),
                                 !.currentLevel = loads[i].n], 0)
    /\ UNCHANGED <<timers, frame, rendered>>

\* Utils.loadJSON rejects (descriptor missing or malformed): Level.loadLevel
\* returns false, Game.loadLevel shows the error
LoadFail(i) ==
    /\ loads[i].pc = "json"
    /\ loads' = RemoveAt(loads, i)
    /\ message' = ShowError
    /\ gameState' = [gameState EXCEPT
                       !.isPlaying = IF loads[i].init THEN TRUE ELSE @,
                       !.isPaused = IF loads[i].init THEN FALSE ELSE @]
    /\ UNCHANGED <<player, level, timers, frame, rendered>>

\* an awaited createObject resolves and the object is pushed; models that
\* have a file load when loaded is true
LoadObjectAs(i, loaded) ==
    /\ loads[i].pc = "build"
    /\ LET category == Categories[loads[i].cat]
           object == CreateEntity(category, Head(loads[i].items), loaded)
           lv == PushObject(level, category, object)
       IN  IF Tail(loads[i].items) # <<>>
           THEN /\ level' = lv
                /\ loads' = [loads EXCEPT ![i].items = Tail(@)]
                /\ UNCHANGED <<player, gameState, message>>
           ELSE Continue(i, lv, loads[i].cat)
    /\ UNCHANGED <<timers, frame, rendered>>

\* every model file is served
LoadObject(i) == LoadObjectAs(i, TRUE)

\* any model file may fail to load
LoadObjectAny(i) == \E loaded \in BOOLEAN : LoadObjectAs(i, loaded)

\* Game.init has constructed the player and the level and awaits loadLevel(1)
Init ==
    /\ player = NewPlayer
    /\ level = NewLevel
    /\ gameState = NewGameState
    /\ loads = <<[n |-> 1, pc |-> "json", cat |-> 0, items |-> <<>>, init |-> TRUE]>>
    /\ timers = 0
    /\ message = NoMessage
    /\ frame = 0
    /\ rendered = FALSE

Next ==
    \/ Animate
    \/ PlayerDied
    \/ PressR
    \/ PressN
    \/ ClickMessage
    \/ \E i \in 1..Len(loads) : LoadJSON(i)
    \/ \E i \in 1..Len(loads) : LoadFail(i)
    \/ \E i \in 1..Len(loads) : LoadObject(i)

Spec == Init /\ [][Next]_vars

(***************************************************************************)
(* Play within one level: the game has started on level n, loaded with     *)
(* nothing interleaved, and the user drives the player with the keyboard.  *)
(***************************************************************************)
BuiltCategory(category, n) ==
    [i \in 1..Len(LevelFile(n)[category]) |->
        CreateEntity(category, LevelFile(n)[category][i], TRUE)]

\* the level a whole Level.loadLevel(n) leaves
LoadedLevel(n) ==
    CountTotalCoins(
        [platforms |-> BuiltCategory("platforms", n),
         collectibles |-> BuiltCategory("collectibles", n),
         hazards |-> BuiltCategory("hazards", n),
         environment |-> BuiltCategory("environment", n),
         interactive |-> BuiltCategory("interactive", n),
         levelData |-> LevelFile(n), currentLevel |-> n, totalCoins |-> 0])

InitPlaying ==
    \E n \in 1..LastLevel :
        /\ level = LoadedLevel(n)
        /\ player = Reset(NewPlayer, GetPlayerSpawnPosition(LoadedLevel(n)))
        /\ gameState = [NewGameState EXCEPT !.isPlaying = TRUE, !.currentLevel = n]
        /\ loads = <<>>
        /\ timers = 0
        /\ message = NoMessage
        /\ frame = 0
        /\ rendered = FALSE
    /\ rendered = FALSE

NextPlayer ==
    \/ AnimatePlay
    \/ PlayerDied
    \/ \E code \in WalkCodes : KeyDown(code)
    \/ \E code \in WalkCodes : KeyUp(code)
    \/ PressR

SpecPlayer == InitPlaying /\ [][NextPlayer]_vars

\* the same play, every pending setTimeout callback eventually firing
SpecPlayerFair == SpecPlayer /\ WF_vars(PlayerDied)

\* the jump cycle: only the jump key is used, for as many frames as a jump lasts
NextJump ==
    \/ AnimateJump
    \/ KeyDown("Space")
    \/ KeyUp("Space")

SpecJump == InitPlaying /\ [][NextJump]_vars

\* the session commands: the game is restarted at any moment of play
NextRestart ==
    \/ Animate
    \/ PlayerDied
    \/ RestartGameCommand
    \/ \E i \in 1..Len(loads) : LoadJSON(i)
    \/ \E i \in 1..Len(loads) : LoadFail(i)
    \/ \E i \in 1..Len(loads) : LoadObject(i)

SpecRestart == InitPlaying /\ [][NextRestart]_vars

\* the game from its start with the pause, restart and next-level commands,
\* the levels loaded one after the other
NextPause ==
    \/ AnimatePause
    \/ PlayerDied
    \/ PressP
    \/ ResumeGame
    \/ PressR
    \/ PressNIdle
    \/ \E i \in 1..Len(loads) : LoadJSON(i)
    \/ \E i \in 1..Len(loads) : LoadObject(i)

SpecPause == Init /\ [][NextPause]_vars

\* level loads only, the N key also pressed while a load is in flight
NextLoads ==
    \/ PressNLoading
    \/ \E i \in 1..Len(loads) : LoadJSON(i)
    \/ \E i \in 1..Len(loads) : LoadFail(i)
    \/ \E i \in 1..Len(loads) : LoadObject(i)

SpecLoads == Init /\ [][NextLoads]_vars

\* level loads one after the other, every descriptor served, any model file
\* failing
NextAssets ==
    \/ PressNIdle
    \/ \E i \in 1..Len(loads) : LoadJSON(i)
    \/ \E i \in 1..Len(loads) : LoadObjectAny(i)

SpecAssets == Init /\ [][NextAssets]_vars

(***************************************************************************)
(* Play on other level descriptors.  levels/level1.json is data the game   *)
(* fetches: the arenas are descriptors it may hold, each built around one  *)
(* situation of play (a descending stair of platforms, platforms that      *)
(* overlap, hazards side by side, a flag, hearts to collect, a spawn below *)
(* the world).                                                             *)
(***************************************************************************)
ArenaFile(k) ==
    CASE k = 1 ->
           \* a stair of platforms, each 0.9 below the one before it
           [NoData EXCEPT
              !.platforms = [i \in 1..24 |-> Entry("platform", 0, -200 - 180 * i, 0)],
              !.collectibles = <<Entry("heart", 60, 980, 0)>>,
              !.spawn = <<Vec(20, 200, 0)>>,
              !.goal = <<[type |-> "collect_hearts", count |-> 0]>>]
      [] k = 2 ->
           \* platforms at the edges of the band of the spawn, and one inside it
           [NoData EXCEPT
              !.platforms = <<Entry("grass", 600, -200, 0), Entry("grass", 0, 100, 0),
                              Entry("grass", 0, -400, 0), Entry("grass", 0, -200, 0)>>,
              !.interactive = <<Entry("crate", 0, 200, 0)>>,
              !.spawn = <<Vec(0, 200, 0)>>,
              !.goal = <<[type |-> "reach_flag", count |-> 0]>>]
      [] k = 3 ->
           \* hazards side by side
           [NoData EXCEPT
              !.hazards = <<[type |-> "spike", position |-> Vec(360, 200, 0), damage |-> 2],
                            Entry("saw", 390, 200, 0), Entry("bomb", 390, 200, 0)>>,
              !.spawn = <<Vec(0, 200, 0)>>,
              !.goal = <<[type |-> "survive", count |-> 0]>>]
      [] k = 4 ->
           \* two platforms that overlap, and a flag behind a crate
           [NoData EXCEPT
              !.platforms = <<Entry("grass", 0, -200, 0), Entry("platform", 0, -300, 0)>>,
              !.interactive = <<Entry("crate", 0, 100, 0), Entry("flag", 660, 100, 0)>>,
              !.spawn = <<Vec(0, 200, 0)>>,
              !.goal = <<[type |-> "reach_flag", count |-> 0]>>]
      [] k = 5 ->
           \* two hearts to collect
           [NoData EXCEPT
              !.collectibles = <<Entry("coin-gold", 0, 200, 0), Entry("heart", 0, 200, 0),
                                 Entry("heart", 400, 200, 0)>>,
              !.spawn = <<Vec(0, 200, 0)>>,
              !.goal = <<[type |-> "collect_hearts", count |-> 2]>>]
      [] OTHER ->
           \* a spawn below the world, over platforms at y = -1 and y = 0
           [NoData EXCEPT
              !.platforms = <<Entry("grass", 0, -200, 0), Entry("grass", 0, 0, 0)>>,
              !.spawn = <<Vec(0, -5000, 0)>>,
              !.goal = <<[type |-> "survive", count |-> 0]>>]

Arenas == 1..6

BuiltFrom(category, data) ==
    [i \in 1..Len(data[category]) |-> CreateEntity(category, data[category][i], TRUE)]

\* the level a whole Level.loadLevel(n) leaves when it is served the descriptor data
LoadedFrom(data, n) ==
    CountTotalCoins(
        [platforms |-> BuiltFrom("platforms", data),
         collectibles |-> BuiltFrom("collectibles", data),
         hazards |-> BuiltFrom("hazards", data),
         environment |-> BuiltFrom("environment", data),
         interactive |-> BuiltFrom("interactive", data),
         levelData |-> data, currentLevel |-> n, totalCoins |-> 0])

InitArena ==
    \E k \in Arenas :
        /\ level = LoadedFrom(ArenaFile(k), 1)
        /\ player = Reset(NewPlayer, GetPlayerSpawnPosition(LoadedFrom(ArenaFile(k), 1)))
        /\ gameState = [NewGameState EXCEPT !.isPlaying = TRUE]
        /\ loads = <<>>
        /\ timers = 0
        /\ message = NoMessage
        /\ frame = 0
        /\ rendered = FALSE

\* the key codes of a run: walk to the right and backward, with or without the
\* run modifier
RunCodes == {"ArrowRight", "ArrowDown", "ShiftLeft"}

AnimateArena == AnimateWithin(MaxArenaFrames)

\* the callback of the setTimeout of takeDamage: the feedback of the hit ends
FeedbackEnds ==
    /\ player.color = "red"
    /\ player' = [player EXCEPT !.color = "green"]
    /\ UNCHANGED <<level, gameState, loads, timers, message, frame, rendered>>

NextArena ==
    \/ AnimateArena
    \/ PlayerDied
    \/ FeedbackEnds
    \/ \E code \in RunCodes : KeyDown(code)
    \/ \E code \in RunCodes : KeyUp(code)

SpecArena == InitArena /\ [][NextArena]_vars

(***************************************************************************)
(* Play through the levels: the user walks, accepts the message's button   *)
(* and uses the next-level key, each load started when none is in flight.  *)
(***************************************************************************)
AnimateAdvance == AnimateWithin(MaxAdvanceFrames)

\* the message's button clicked when every load has returned
ClickMessageIdle ==
    /\ loads = <<>>
    /\ ClickMessage

NextAdvance ==
    \/ AnimateAdvance
    \/ PlayerDied
    \/ KeyDown("ArrowRight")
    \/ KeyUp("ArrowRight")
    \/ ClickMessageIdle
    \/ PressNIdle
    \/ \E i \in 1..Len(loads) : LoadJSON(i)
    \/ \E i \in 1..Len(loads) : LoadObject(i)

SpecAdvance == InitPlaying /\ [][NextAdvance]_vars

(***************************************************************************)
(* The end of the game: play starts on the last level, the user walks to   *)
(* the flag and accepts the message's button.                              *)
(***************************************************************************)
InitLastLevel ==
    /\ InitPlaying
    /\ gameState.currentLevel = LastLevel

AnimateReplay == AnimateWithin(MaxReplayFrames)

NextReplay ==
    \/ AnimateReplay
    \/ PlayerDied
    \/ KeyDown("ArrowRight")
    \/ KeyUp("ArrowRight")
    \/ ClickMessageIdle
    \/ \E i \in 1..Len(loads) : LoadJSON(i)
    \/ \E i \in 1..Len(loads) : LoadObject(i)

SpecReplay == InitLastLevel /\ [][NextReplay]_vars

(***************************************************************************)
(* Properties                                                              *)
(***************************************************************************)
\* a step that is one frame of a running, unpaused game: Game.update ran
Ticked == frame' = frame + 1 /\ ~gameState.isPaused

\* a step that runs Game.playerDied: only it takes a timer off the queue
DiedNotified == timers' = timers - 1

\* C1: when playerDied is notified, a player whose lives are exhausted gets the
\* Game Over message (whose button runs restartGame), and a player with lives
\* left is respawned in the level by restartLevel.
C1_GameOverWhenLivesExhausted ==
    [][DiedNotified =>
          IF player.lives <= 0
          THEN /\ message'.visible
               /\ message'.title = "Game Over"
               /\ message'.onclick.kind = "restartGame"
          ELSE /\ player'.isAlive
               /\ player'.position = GetPlayerSpawnPosition(level)]_vars

\* C2: Player.lives is never negative.
C2_LivesNonNegative == player.lives >= 0

\* the hazards of the level within the collision radius of a player
HazardsInRange(p) ==
    {i \in 1..Len(level.hazards) : IsColliding(p, level.hazards[i], CollideRadius)}

\* the world handed to Player.update in the current state
Now == World(player, level.collectibles, gameState, timers)

\* C3: an alive player who reaches the hazard step of a tick with one life and
\* at least one hazard within radius 1.5 ends the tick with lives = 0 and
\* isAlive = false, and die ran once (one playerDied timer was added), however
\* many hazards are in range.
C3_LastLifeDiesOnce ==
    [][(/\ Ticked
        /\ player.isAlive
        /\ MoveAndCollect(Now, level.platforms).player.lives = 1
        /\ HazardsInRange(MoveAndCollect(Now, level.platforms).player) # {})
       => (/\ player'.lives = 0
           /\ ~player'.isAlive
           /\ timers' = timers + 1)]_vars

\* C3 witness: the player has just died on the last life within the radius of
\* two hazards, and a single notification is pending.
C3_Witness ==
    /\ ~player.isAlive
    /\ player.lives = 0
    /\ timers = 1
    /\ Cardinality(HazardsInRange(player)) >= 2

\* C4: a frame that finds the player dead changes nothing of the player (its
\* position, velocity, lives and flags), no collected flag, and neither score
\* nor coins, whichever keys are held.
C4_DeadUpdateIsNoOp ==
    [][(Ticked /\ ~player.isAlive)
       => (/\ player' = player
           /\ \A i \in 1..Len(level.collectibles) :
                  level'.collectibles[i].collected = level.collectibles[i].collected
           /\ gameState'.score = gameState.score
           /\ gameState'.coins = gameState.coins)]_vars

\* C4 witness: on level 2 every walk dies in the third frame; two more frames
\* have run on the dead player, with a key held, and nothing has revived it
\* (the score is that of one pass over the level's collectibles).
C4_Witness ==
    /\ ~player.isAlive
    /\ player.keys # {}
    /\ gameState.currentLevel = 2
    /\ gameState.score = 575
    /\ timers = 1
    /\ frame = 5

\* a tick that starts with the jump key held by an alive, grounded player who
\* is not already jumping
JumpTick ==
    /\ Ticked
    /\ player.isAlive
    /\ "space" \in player.keys
    /\ player.isGrounded
    /\ ~player.isJumping

\* C5 as stated: at the tick of the jump the vertical velocity is exactly the
\* jump impulse and isGrounded is false.
C5_JumpVelocityIsImpulse ==
    [][JumpTick => (player'.velocity.y = JumpForce /\ ~player'.isGrounded)]_vars

\* C5 amended: the impulse is set and gravity is integrated in the same tick.
\* At the end of the tick of the jump the player has risen by jumpForce +
\* gravity; if that is still at or below the floor the floor clamp grounds the
\* player again, otherwise isGrounded is false, isJumping is true and the
\* vertical velocity is jumpForce + gravity, or the knockback 0.2 when a hazard
\* is in range.
C5_JumpTickIntegratesGravity ==
    [][JumpTick =>
          IF player.position.y + JumpForce + Gravity <= FloorY
          THEN /\ player'.isGrounded
               /\ ~player'.isJumping
               /\ player'.velocity.y = IF HazardsInRange(player') # {} THEN KnockUp ELSE 0
          ELSE /\ ~player'.isGrounded
               /\ player'.isJumping
               /\ player'.position.y = player.position.y + JumpForce + Gravity
               /\ player'.velocity.y =
                      IF HazardsInRange(player') # {} THEN KnockUp
                      ELSE JumpForce + Gravity]_vars

\* C5 witness: the state a jump from the floor leaves at the end of its tick.
C5_Witness ==
    /\ player.isAlive
    /\ player.isJumping
    /\ ~player.isGrounded
    /\ player.position.y = FloorY + JumpForce + Gravity
    /\ player.velocity.y = JumpForce + Gravity

\* C6: a tick that starts with the player airborne applies no jump impulse,
\* whatever the jump key does: the vertical velocity only takes gravity, or is
\* set by a landing (0) or a hazard knockback, and isJumping is not set anew.
C6_NoJumpWhileAirborne ==
    [][(Ticked /\ player.isAlive /\ ~player.isGrounded)
       => (/\ player'.isJumping => player.isJumping
           /\ \/ player'.velocity.y = player.velocity.y + Gravity
              \/ player'.isGrounded /\ player'.velocity.y = 0
              \/ HazardsInRange(player') # {} /\ player'.velocity.y = KnockUp)]_vars

\* C6 witness: the player is in the air in the second tick or later of a jump,
\* with the jump key held.
C6_Witness ==
    /\ player.isAlive
    /\ player.isJumping
    /\ ~player.isGrounded
    /\ "space" \in player.keys
    /\ player.velocity.y < JumpForce + Gravity

\* the effect of each collectible type, as the claim C7 lists it
ClaimedScore(type) ==
    CASE type = "coin-gold" -> 100
      [] type = "coin-silver" -> 50
      [] type = "coin-bronze" -> 25
      [] type = "heart" -> 200
      [] type = "jewel" -> 500
      [] type = "key" -> 300
      [] OTHER -> 50

ClaimedCoins(type) == IF type \in {"heart", "jewel", "key"} THEN 0 ELSE 1

ClaimedLives(type) == IF type = "heart" THEN 1 ELSE 0

RECURSIVE SumOver(_, _, _)
SumOver(F(_), collectibles, S) ==
    IF S = {} THEN 0
    ELSE LET i == CHOOSE j \in S : TRUE
         IN  F(collectibles[i].type) + SumOver(F, collectibles, S \ {i})

\* the collectibles a step collects
Collected ==
    {i \in 1..Len(level.collectibles) :
        ~level.collectibles[i].collected /\ level'.collectibles[i].collected}

\* C7: the collectibles collected in a tick change score and coins by exactly
\* the sum of the effects of their types, each is marked collected and hidden,
\* and (in a tick without hazard contact) lives grow by one per heart.
C7_CollectEffects ==
    [][Ticked =>
          (/\ gameState'.score =
                  gameState.score + SumOver(ClaimedScore, level.collectibles, Collected)
           /\ gameState'.coins =
                  gameState.coins + SumOver(ClaimedCoins, level.collectibles, Collected)
           /\ \A i \in Collected : ~level'.collectibles[i].visible
           /\ HazardsInRange(player') = {} =>
                  player'.lives =
                      player.lives + SumOver(ClaimedLives, level.collectibles, Collected))]_vars

\* C7 witness: level 3 after one pass over its key, its unknown type and its
\* entry without type: 300 + 50 + 50 points and two coins.
C7_Witness ==
    /\ gameState.currentLevel = 3
    /\ \A i \in 1..Len(level.collectibles) :
           level.collectibles[i].collected /\ ~level.collectibles[i].visible
    /\ gameState.score = 400
    /\ gameState.coins = 2

\* C8: a tick leaves every collected collectible as it is, and a tick that
\* collects nothing new changes neither score nor coins and adds no life, even
\* with collected collectibles within the radius.
C8_CollectedOnce ==
    [][Ticked =>
          (/\ \A i \in 1..Len(level.collectibles) :
                  level.collectibles[i].collected =>
                      level'.collectibles[i] = level.collectibles[i]
           /\ Collected = {} =>
                  /\ gameState'.score = gameState.score
                  /\ gameState'.coins = gameState.coins
                  /\ player'.lives <= player.lives)]_vars

\* C8 witness: after the second frame on level 3 the alive player is still
\* within the radius of its three collected collectibles and the score is that
\* of one collection of each.
C8_Witness ==
    /\ player.isAlive
    /\ gameState.currentLevel = 3
    /\ frame = 2
    /\ gameState.score = 400
    /\ \A i \in 1..Len(level.collectibles) :
           /\ level.collectibles[i].collected
           /\ IsColliding(player, level.collectibles[i], CollideRadius)

\* the coin-type collectibles of the level, and those of them collected
CoinItems == {i \in 1..Len(level.collectibles) : IsCoinType(level.collectibles[i].type)}

CollectedCoinItems == {i \in CoinItems : level.collectibles[i].collected}

\* C9: while the game runs a level whose goal is collect_all_coins,
\* checkLevelComplete() is true exactly when all the coin-type collectibles of
\* the level are collected.
C9_CompleteIffAllCoins ==
    (gameState.isPlaying /\ GetLevelGoal(level).type = "collect_all_coins")
        => (CheckLevelComplete(level, player)
                <=> Cardinality(CollectedCoinItems) >= Cardinality(CoinItems))

\* a step that runs Game.restartLevel
Restarted == PressR \/ (PlayerDied /\ gameState.lives > 0)

\* C10: restartLevel's resetCollectibles leaves every collectible uncollected,
\* visible and at its originalPosition, whatever it was before, and changes
\* nothing else of the level, nor the score.
C10_ResetCollectibles ==
    [][Restarted =>
          (/\ Len(level'.collectibles) = Len(level.collectibles)
           /\ \A i \in 1..Len(level.collectibles) :
                  level'.collectibles[i] =
                      [level.collectibles[i] EXCEPT
                          !.collected = FALSE, !.visible = TRUE,
                          !.position = level.collectibles[i].originalPosition]
           /\ [level' EXCEPT !.collectibles = <<>>] = [level EXCEPT !.collectibles = <<>>]
           /\ gameState'.score = gameState.score)]_vars

\* C10 witness: points were scored, so a collectible was collected, and every
\* collectible is again uncollected, visible and at its original position.
C10_Witness ==
    /\ gameState.score > 0
    /\ level.collectibles # <<>>
    /\ \A i \in 1..Len(level.collectibles) :
           /\ ~level.collectibles[i].collected
           /\ level.collectibles[i].visible
           /\ level.collectibles[i].position = level.collectibles[i].originalPosition

\* C11: restartLevel puts the player at the level's spawn position, at rest and
\* alive, resets every collectible, and leaves the score and the player's
\* lives as they were before the call.
C11_RestartLevelPreservesLives ==
    [][Restarted =>
          (/\ player'.position = GetPlayerSpawnPosition(level)
           /\ player'.velocity = Vec(0, 0, 0)
           /\ player'.isAlive
           /\ \A i \in 1..Len(level'.collectibles) :
                  /\ ~level'.collectibles[i].collected
                  /\ level'.collectibles[i].position =
                         level'.collectibles[i].originalPosition
           /\ gameState'.score = gameState.score
           /\ player'.lives = player.lives)]_vars

\* a step in which load i of level 1 returns true to Game.loadLevel
LevelOneLoaded ==
    \E i \in 1..Len(loads) :
        /\ loads[i].n = 1
        /\ LoadJSON(i) \/ LoadObject(i)
        /\ loads' = RemoveAt(loads, i)

\* C12: restartGame sets score and coins to 0, the lives of the game state and
\* of the player to the starting value and currentLevel to 1, and starts a load
\* of level 1; when that load succeeds the player is alive at the spawn point
\* of level 1.
C12_RestartGame ==
    [][/\ RestartGameCommand =>
            /\ gameState'.score = 0
            /\ gameState'.coins = 0
            /\ gameState'.lives = StartLives
            /\ player'.lives = StartLives
            /\ gameState'.currentLevel = 1
            /\ Len(loads') = Len(loads) + 1
            /\ loads'[Len(loads')].n = 1
            /\ loads'[Len(loads')].pc = "json"
       /\ LevelOneLoaded =>
            /\ player'.isAlive
            /\ player'.position = GetPlayerSpawnPosition(LoadedLevel(1))
            /\ player'.velocity = Vec(0, 0, 0)
            /\ gameState'.currentLevel = 1]_vars

\* C12 witness: the player died on a later level (on level 1 nothing is in reach
\* of the spawn), the game was restarted and level 1 has loaded: the player is
\* alive at its spawn with the starting lives and no score, the death's
\* notification still pending.
C12_Witness ==
    /\ timers = 1
    /\ loads = <<>>
    /\ gameState.currentLevel = 1
    /\ gameState.score = 0
    /\ level.levelData = LevelFile(1)
    /\ Len(level.collectibles) = Len(LevelFile(1).collectibles)
    /\ player.isAlive
    /\ player.lives = StartLives
    /\ player.position = GetPlayerSpawnPosition(LoadedLevel(1))

\* the collections hold one object per entry of the descriptor the level has
\* loaded last: a level as a whole load leaves it
HoldsLoadedLevel ==
    \A c \in 1..Len(Categories) :
        /\ Len(level[Categories[c]]) = Len(level.levelData[Categories[c]])
        /\ \A i \in 1..Len(level[Categories[c]]) :
               level[Categories[c]][i].type = level.levelData[Categories[c]][i].type

\* C13: a load whose descriptor is missing or malformed shows the error
\* message and transitions nothing: once it has returned, the level still
\* holds the entities of the level that was loaded before the call.
C13_FailedLoadKeepsLevel ==
    (/\ message.visible
     /\ message.title = "Error"
     /\ loads = <<>>
     /\ level.levelData # NoData)
        => HoldsLoadedLevel

\* the collections hold objects of descriptor n only, each entry at most once
FromOneLoadOf(n) ==
    \A c \in 1..Len(Categories) :
        /\ Len(level[Categories[c]]) <= Len(LevelFile(n)[Categories[c]])
        /\ \A i \in 1..Len(level[Categories[c]]) :
               /\ level[Categories[c]][i].type = LevelFile(n)[Categories[c]][i].type
               /\ level[Categories[c]][i].position.x =
                      LevelFile(n)[Categories[c]][i].position.x

\* C14: whatever loadLevel calls were issued, also before an earlier load has
\* finished, the collections hold only entities built from a single descriptor
\* load, each descriptor entry at most once.
C14_NoOverlapOfLevels == \E n \in 1..LastLevel : FromOneLoadOf(n)

\* the category a load in its build phase is filling, and the entry it awaits
BuildCategory == Categories[loads[1].cat]

BuildEntry == Head(loads[1].items)

\* C15: when the descriptor loads, no asset failure aborts the load: each
\* awaited createObject, whether its model loads, fails to load or has no asset
\* path, adds exactly one entity for its entry (a placeholder when the type has
\* no asset path), and when the load has returned it has succeeded with one
\* entity per entry of every category.
C15_AssetFailureNeverAborts ==
    /\ [](loads = <<>> =>
            /\ HoldsLoadedLevel
            /\ gameState.currentLevel = level.currentLevel
            /\ ~message.visible)
    /\ [][(loads # <<>> /\ loads[1].pc = "build") =>
            /\ Len(level'[BuildCategory]) = Len(level[BuildCategory]) + 1
            /\ \A i \in 1..Len(level[BuildCategory]) :
                   level'[BuildCategory][i] = level[BuildCategory][i]
            /\ level'[BuildCategory][Len(level'[BuildCategory])].type = BuildEntry.type
            /\ level'[BuildCategory][Len(level'[BuildCategory])].position =
                   BuildEntry.position
            /\ BuildEntry.type \notin AssetPaths(BuildCategory) =>
                   level'[BuildCategory][Len(level'[BuildCategory])].mesh = "fallback"
            /\ \A c \in 1..Len(Categories) :
                   Categories[c] # BuildCategory =>
                       level'[Categories[c]] = level[Categories[c]]]_vars

\* C15 witness: level 3 has loaded completely although the models of its key
\* and its flag failed to load; the platform's model loaded.
C15_Witness ==
    /\ loads = <<>>
    /\ level.currentLevel = 3
    /\ gameState.currentLevel = 3
    /\ HoldsLoadedLevel
    /\ level.collectibles[1].type = "key"
    /\ level.collectibles[1].mesh = "fallback"
    /\ level.interactive[1].mesh = "fallback"
    /\ level.platforms[1].mesh = "model"

\* a step that is one animation frame of a paused game
PausedFrame == frame' = frame + 1 /\ gameState.isPaused

\* C16: no frame runs while isPlaying is false and a frame of a paused game
\* updates nothing; a frame of a running, unpaused game runs Player.update on
\* the level as the frame found it, then Level.update (which animates only what
\* Player.update left uncollected), then checkLevelComplete on the result.
C16_TickOnlyWhilePlayingUnpaused ==
    [][/\ ~gameState.isPlaying => frame' = frame
       /\ PausedFrame =>
            UNCHANGED <<player, level, gameState, loads, timers, message>>
       /\ Ticked =>
            /\ player' = PlayerUpdate(Now, level.platforms, level.hazards).player
            /\ timers' = PlayerUpdate(Now, level.platforms, level.hazards).timers
            /\ \A i \in 1..Len(level.collectibles) :
                   /\ level'.collectibles[i].collected =
                          PlayerUpdate(Now, level.platforms,
                                       level.hazards).collectibles[i].collected
                   /\ level'.collectibles[i].collected =>
                          level'.collectibles[i].position =
                              level.collectibles[i].position
            /\ message' = IF CheckLevelComplete(level', player')
                          THEN LevelComplete(gameState')
                          ELSE message]_vars

\* C16 witness: the game scored in an unpaused frame, was paused, and the
\* last frame found it paused.
C16_Witness ==
    /\ gameState.isPaused
    /\ frame = MaxPauseFrames
    /\ ~rendered
    /\ gameState.score > 0
    /\ player.lives < StartLives

\* the completion or game-over message has been requested and not dismissed
EndedShown ==
    /\ message.visible
    /\ message.title \in {"Level Complete!", "Game Complete!", "Game Over"}

\* C17: once a level is completed or the game is over the game has left the
\* playing state: while the message is up no tick runs Player.update or
\* evaluates completion again.
C17_NoTickAfterEnd == [][EndedShown => (~gameState.isPlaying /\ ~Ticked)]_vars

\* C18: a level load is fully awaited before gameplay runs against the level:
\* no tick runs between the moment a loadLevel call clears the level and the
\* moment that load returns.
C18_NoTickDuringLoad == [][Ticked => loads = <<>>]_vars

\* C19 as stated: while paused, frames are still rendered and only the
\* simulation is suspended; a pause toggle changes isPaused and nothing else.
C19_PausedFramesRendered ==
    [][/\ PausedFrame =>
            /\ rendered'
            /\ UNCHANGED <<player, level, gameState, loads, timers, message>>
       /\ (gameState.isPlaying /\ gameState'.isPaused # gameState.isPaused) =>
            UNCHANGED <<player, level, loads, timers, message, frame>>]_vars

\* C19 amended: while paused the frame callback still runs but calls neither
\* update nor render; the pause, restart-level and next-level commands are
\* still accepted, a pause toggle while paused resumes, and the first frame
\* that finds the game unpaused updates and renders; a change of isPaused in a
\* started game changes nothing else, so two toggles restore the state.
C19_PauseSuspendsUpdateAndRender ==
    /\ [](gameState.isPaused =>
            /\ ENABLED (PressP /\ ~gameState'.isPaused)
            /\ ENABLED PressR
            /\ loads = <<>> => ENABLED PressN)
    /\ [][/\ PausedFrame =>
               /\ ~rendered'
               /\ UNCHANGED <<player, level, gameState, loads, timers, message>>
          /\ Ticked =>
               /\ rendered'
               /\ player' = PlayerUpdate(Now, level.platforms, level.hazards).player
          /\ (gameState.isPlaying /\ gameState'.isPaused # gameState.isPaused) =>
               /\ gameState' = [gameState EXCEPT !.isPaused = ~@]
               /\ UNCHANGED <<player, level, loads, timers, message, frame,
                              rendered>>]_vars

\* C19 witness: a frame found the game paused, the pause has been toggled off
\* again before the next frame, and a next-level command is being served.
C19_Witness ==
    /\ gameState.isPlaying
    /\ ~gameState.isPaused
    /\ frame >= 1
    /\ ~rendered
    /\ loads # <<>>

\* a step in which the player dies
Dies == player.isAlive /\ ~player'.isAlive

\* C20: every death is reported once: a step in which the player dies
\* schedules exactly one playerDied callback and nothing else schedules one,
\* each callback that fires takes one off the queue, and every scheduled
\* callback eventually fires.
C20_EveryDeathReported ==
    /\ [][/\ Dies => timers' = timers + 1
          /\ timers' > timers => (Dies /\ timers' = timers + 1)
          /\ timers' < timers => (PlayerDied /\ timers' = timers - 1)]_vars
    /\ \A k \in 1..MaxPlayFrames : (timers = k) ~> (timers = k - 1)

\* C20 witness: on level 2 the bomb at the spawn has killed the player in the
\* third frame and the notification has fired: the player is back alive with
\* the points of the one pass, and no callback is pending.
C20_Witness ==
    /\ timers = 0
    /\ player.isAlive
    /\ player.lives = StartLives
    /\ gameState.currentLevel = 2
    /\ frame = 3
    /\ gameState.score = 575
    /\ gameState.coins = 0

\* the world as the hazard step of the tick leaves it: what checkBoundaries finds
AtBoundaries ==
    CheckHazardCollisions(MoveAndCollect(Now, level.platforms), level.hazards)

\* a tick of an alive player whose checkBoundaries finds it below y = -20
Fell == Ticked /\ player.isAlive /\ AtBoundaries.player.position.y < FallY

\* C21: a tick in which the player's vertical position falls below -20 applies
\* exactly one damage (lives decreases by exactly 1) and one respawn, which
\* places the player at the current level's spawn point with velocity (0,0,0)
\* and the grounded and jumping flags cleared.
C21_FallRespawnsAtLevelSpawn ==
    [][Fell =>
          /\ player'.lives = AtBoundaries.player.lives - 1
          /\ player'.position = GetPlayerSpawnPosition(level)
          /\ player'.velocity = Vec(0, 0, 0)
          /\ ~player'.isGrounded
          /\ ~player'.isJumping]_vars

\* isOnPlatform as the claim C22 words it: the horizontal distance strictly
\* less than 3, the vertical offset strictly between 0.5 and 3
ClaimedOnPlatform(p, platform) ==
    LET dx == p.position.x - platform.position.x
        dz == p.position.z - platform.position.z
        offset == p.position.y - platform.position.y
    IN  /\ dx * dx + dz * dz < 600 * 600
        /\ 100 < offset
        /\ offset < 600

\* C22: isOnPlatform(player, platform) with the default threshold is true iff
\* the horizontal (x,z) distance is strictly less than 3 and player.y -
\* platform.y is strictly between 0.5 and 3; it is false at an offset of
\* exactly 0.5 or exactly 3 and at a horizontal distance of exactly 3.
C22_IsOnPlatform ==
    \A i \in 1..Len(level.platforms) :
        IsOnPlatform(player, level.platforms[i])
            <=> ClaimedOnPlatform(player, level.platforms[i])

\* C22 witness: a tick has run and left the player at horizontal distance
\* exactly 3 of one platform, at offset exactly 0.5 of another and exactly 3 of
\* a third, on none of which it stands, and standing on a fourth.
C22_Witness ==
    /\ frame > 0
    /\ Len(level.platforms) = 4
    /\ player.position.x - level.platforms[1].position.x = -600
    /\ player.position.z = level.platforms[1].position.z
    /\ player.position.y - level.platforms[2].position.y = 100
    /\ player.position.y - level.platforms[3].position.y = 600
    /\ \A i \in 1..3 : ~IsOnPlatform(player, level.platforms[i])
    /\ IsOnPlatform(player, level.platforms[4])
    /\ player.isGrounded

\* a step in which a load of level n returns true to Game.loadLevel
LevelLoaded(n) ==
    \E i \in 1..Len(loads) :
        /\ loads[i].n = n
        /\ LoadJSON(i) \/ LoadObject(i)
        /\ loads' = RemoveAt(loads, i)

\* a click on the message's button that runs restartGame or the Play Again
\* callback: the two restarts of the whole game
FullRestart ==
    /\ ClickMessage
    /\ message.onclick.kind \in {"restartGame", "playAgain"}

\* C23: a successful Game.loadLevel(n), started by the level-advance button or
\* by the next-level key, sets currentLevel to n, leaves the score and the lives
\* unchanged, resets the coins counter to 0 and leaves the player alive at the
\* new level's spawn position with zero velocity; the score is cleared only by
\* a restart of the whole game, and currentLevel goes back to 1 only when the
\* load of level 1 such a restart started returns.
C23_LevelTransitionKeepsScore ==
    [][/\ \A n \in 1..LastLevel :
              LevelLoaded(n) =>
                  /\ gameState'.currentLevel = n
                  /\ gameState'.score = gameState.score
                  /\ gameState'.lives = gameState.lives
                  /\ player'.lives = player.lives
                  /\ gameState'.coins = 0
                  /\ player'.isAlive
                  /\ player'.position = GetPlayerSpawnPosition(LoadedLevel(n))
                  /\ player'.velocity = Vec(0, 0, 0)
       /\ (gameState'.score < gameState.score) => FullRestart
       /\ (gameState'.currentLevel = 1 /\ gameState.currentLevel # 1) => LevelLoaded(1)
       /\ (\E i \in 1..Len(loads') : i > Len(loads) /\ loads'[i].n = 1) => FullRestart]_vars

\* C23 witness: level 2 was completed with a score of 575, the offer of level 3
\* was accepted and the load has returned: the game is on level 3 with the
\* score kept, no coins, and the player alive at the spawn of level 3.
C23_Witness ==
    /\ loads = <<>>
    /\ gameState.currentLevel = 3
    /\ level.levelData = LevelFile(3)
    /\ gameState.score = 575
    /\ gameState.coins = 0
    /\ ~message.visible
    /\ player.isAlive
    /\ player.position = GetPlayerSpawnPosition(LoadedLevel(3))
    /\ player.velocity = Vec(0, 0, 0)
    /\ frame = 1

\* the player as the platform step of the tick finds it
AtPlatforms == UpdatePhysics(UpdateMovement(player))

\* the platforms of the level that satisfy isOnPlatform for a player
PlatformsUnder(p) ==
    {i \in 1..Len(level.platforms) : IsOnPlatform(p, level.platforms[i])}

\* C24: when, in one tick with vertical velocity <= 0, more than one platform of
\* the list satisfies isOnPlatform for the player, the player ends the tick
\* snapped to the first such platform in list order (y = that platform's y + 2).
C24_FirstMatchingPlatformWins ==
    [][(/\ Ticked
        /\ player.isAlive
        /\ AtPlatforms.velocity.y <= 0
        /\ Cardinality(PlatformsUnder(AtPlatforms)) > 1)
       => LET first == CHOOSE i \in PlatformsUnder(AtPlatforms) :
                           \A j \in PlatformsUnder(AtPlatforms) : i <= j
          IN  player'.position.y = level.platforms[first].position.y + PlatformSnap]_vars

\* the height the integration of updatePhysics gives the player in this tick,
\* before the floor is looked at: gravity is added while not grounded
IntegratedY ==
    LET moved == UpdateMovement(player)
    IN  moved.position.y + moved.velocity.y
            + (IF moved.isGrounded THEN 0 ELSE Gravity)

\* C25: isGrounded changes from false to true in a tick only if after
\* integration y <= 1 (the player is then put on the floor, y = 1) or some
\* platform satisfies isOnPlatform while the vertical velocity is <= 0 (the
\* player is then at that platform's y + 2); in both cases the vertical velocity
\* is set to 0 (a hazard in range then knocks it to 0.2).  A player whose
\* vertical velocity is > 0 at the platform step is never snapped: it ends the
\* tick at the integrated height with that velocity.
C25_GroundedOnlyByFloorOrLanding ==
    [][(Ticked /\ player.isAlive) =>
          /\ (~player.isGrounded /\ player'.isGrounded) =>
                /\ \/ player'.velocity.y = 0
                   \/ HazardsInRange(player') # {} /\ player'.velocity.y = KnockUp
                /\ \/ /\ IntegratedY <= FloorY
                      /\ player'.position.y = FloorY
                   \/ \E i \in 1..Len(level.platforms) :
                          /\ IsOnPlatform(player', level.platforms[i])
                          /\ AtPlatforms.velocity.y <= 0
                          /\ player'.position.y =
                                 level.platforms[i].position.y + PlatformSnap
          /\ AtPlatforms.velocity.y > 0 =>
                /\ player'.position.y = IntegratedY
                /\ \/ player'.velocity.y = AtPlatforms.velocity.y
                   \/ HazardsInRange(player') # {} /\ player'.velocity.y = KnockUp]_vars

\* C25 witness: the player, grounded by its first tick, has jumped and is
\* rising through the band of the level's platform without being snapped to it.
C25_Witness ==
    /\ frame >= 2
    /\ player.isAlive
    /\ player.isJumping
    /\ ~player.isGrounded
    /\ player.velocity.y > 0
    /\ player.position.y > FloorY + JumpForce
    /\ Len(level.platforms) = 1
    /\ IsOnPlatform(player, level.platforms[1])

\* the player as the hazard step of the tick finds it
AtHazards == MoveAndCollect(Now, level.platforms).player

\* the factor n knockbacks put on a horizontal velocity component
RECURSIVE Knockback(_)
Knockback(n) == IF n = 0 THEN 1 ELSE -2 * Knockback(n - 1)

\* a tick of an alive player that ends without the respawn of checkBoundaries
HazardTick == Ticked /\ player.isAlive /\ ~Fell

Hits(lives, n) == IF n = 0 THEN 0 ELSE Min(n, Max(lives, 1))

InFeedbackWindow == player.isAlive /\ player.color = "red"

\* C27: after a hit that was not fatal the player is invincible for the 500 ms
\* of the feedback: a tick that runs while the window is open takes no life,
\* whatever hazards are in range.
C27_InvincibleDuringFeedback ==
    [][(HazardTick /\ InFeedbackWindow) => player'.lives = AtHazards.lives]_vars

Abs(n) == IF n < 0 THEN -n ELSE n

\* 1.2 * currentSpeed as the claim C28 words it: currentSpeed is the speed
\* (0.15), or 1.5 times the speed with the run modifier held
ClaimedMaxSpeed(p) == IF "shift" \in p.keys THEN (6 * 3 * Speed) \div 10 ELSE (6 * Speed) \div 5

\* C28: after the movement step of every tick each of velocity.x and velocity.z
\* lies within [-1.2 * currentSpeed, +1.2 * currentSpeed], and so the position
\* moves by no more than that on either axis in the tick (but for the respawn
\* of checkBoundaries), also in the tick that follows a hazard knockback or a
\* release of the run modifier.
C28_HorizontalSpeedClamped ==
    [][(Ticked /\ player.isAlive) =>
          /\ Abs(UpdateMovement(player).velocity.x) <= ClaimedMaxSpeed(player)
          /\ Abs(UpdateMovement(player).velocity.z) <= ClaimedMaxSpeed(player)
          /\ ~Fell =>
                /\ Abs(player'.position.x - player.position.x) <= ClaimedMaxSpeed(player)
                /\ Abs(player'.position.z - player.position.z) <= ClaimedMaxSpeed(player)]_vars

\* C28 witness: the player ran to the right and backward into a hazard, was
\* knocked back at twice the running speed on both axes, let go of every key,
\* and the next tick has moved it by the walking limit 1.2 * speed only.
C28_Witness ==
    /\ player.isAlive
    /\ player.lives = StartLives - 1
    /\ player.keys = {}
    /\ player.velocity.x = -((6 * Speed) \div 5)
    /\ player.velocity.z = -((6 * Speed) \div 5)
    /\ player.position.x = 2 * ((3 * Speed) \div 2) - (6 * Speed) \div 5
    /\ player.position.z = 2 * ((3 * Speed) \div 2) - (6 * Speed) \div 5
    /\ frame = 3

\* the interactive objects of the level whose type is flag
Flags == {i \in 1..Len(level.interactive) : level.interactive[i].type = "flag"}

\* the heart collectibles of the level that are collected
CollectedHearts ==
    {i \in 1..Len(level.collectibles) :
        level.collectibles[i].type = "heart" /\ level.collectibles[i].collected}

\* C29: checkLevelComplete() with the goal reach_flag is true iff an interactive
\* object of type flag exists and the player is at distance < 3 from it (false
\* whenever the level has no flag); with the goal collect_hearts and parameter
\* count it is true iff the number of collected hearts is >= count, count
\* defaulting to 1; with any unrecognised goal type it is false.
C29_OtherGoalTypes ==
    LET goal == GetLevelGoal(level)
    IN  CASE goal.type = "reach_flag" ->
               CheckLevelComplete(level, player)
                   <=> \E i \in Flags :
                           /\ \A j \in Flags : i <= j
                           /\ Distance2(player.position, level.interactive[i].position)
                                  < 600 * 600
          [] goal.type = "collect_hearts" ->
               CheckLevelComplete(level, player)
                   <=> Cardinality(CollectedHearts)
                           >= (IF goal.count = 0 THEN 1 ELSE goal.count)
          [] goal.type = "collect_all_coins" -> TRUE
          [] OTHER -> ~CheckLevelComplete(level, player)

\* C29 witness: on a level whose goal is reach_flag and whose flag stands behind
\* a crate, the player has come within 3 of the flag and the tick has shown the
\* completion message.
C29_Witness ==
    /\ frame > 0
    /\ GetLevelGoal(level).type = "reach_flag"
    /\ Flags = {2}
    /\ Distance2(player.position, level.interactive[2].position) < 600 * 600
    /\ Distance2(player.position, level.interactive[2].position) > 500 * 500
    /\ CheckLevelComplete(level, player)
    /\ message.visible
    /\ message.title = "Level Complete!"

\* C30, the end of the reload: when the load of level 1 that the Play Again
\* button started returns, the game is on level 1 and the score is 0.
C30_ReplayEndsWithScoreZero ==
    [][LevelLoaded(1) => (gameState'.currentLevel = 1 /\ gameState'.score = 0)]_vars

\* the world as Player.update leaves it in this tick, before Level.update runs
AfterPlayerUpdate == PlayerUpdate(Now, level.platforms, level.hazards)

\* C31: Level.update() is purely cosmetic: in a tick it leaves every value that
\* collision resolution and goal evaluation read as Player.update left it: the
\* positions of platforms, collectibles, hazards and interactive objects, every
\* collected flag, totalCoins, the membership of the collections, and all
\* player and game-state fields.
C31_LevelUpdateIsCosmetic ==
    [][Ticked =>
          /\ level'.collectibles = AfterPlayerUpdate.collectibles
          /\ level'.platforms = level.platforms
          /\ level'.hazards = level.hazards
          /\ level'.interactive = level.interactive
          /\ level'.totalCoins = level.totalCoins
          /\ player' = AfterPlayerUpdate.player
          /\ gameState' = [gameState EXCEPT !.score = AfterPlayerUpdate.score,
                                            !.coins = AfterPlayerUpdate.coins]]_vars

\* C32: an alive player always has at least one life, also after Player.reset
\* has been applied to a dead player by restartLevel, by a level load or by
\* restartGame.
C32_AliveHasLives == player.isAlive => player.lives >= 1

\* C33: a playerDied notification acts only on a player who is still dead: when
\* the player was revived during the delay, the late notification resets
\* neither the player, nor the collectibles, nor the coins counter.
C33_LateNotificationIgnored ==
    [][(DiedNotified /\ player.isAlive) =>
          /\ player' = player
          /\ level' = level
          /\ gameState' = gameState]_vars

\* C34: the coins counter never exceeds the level's coin total, for every mix of
\* collectible types and across restartLevel, level loads and failed loads.
C34_CoinsWithinTotal == gameState.coins <= level.totalCoins

\* every platform of the level lies at y >= -1: landing on it snaps to y >= 1
PlatformsAboveFloor ==
    \A i \in 1..Len(level.platforms) :
        level.platforms[i].position.y + PlatformSnap >= FloorY

\* C35: in a level whose platforms all have position.y >= -1, the position.y of
\* an alive player is >= 1 at the end of every tick, whatever the spawn height,
\* and the out-of-world branch of checkBoundaries (y < -20) is never taken.
C35_NeverBelowFloor ==
    [][(Ticked /\ player.isAlive /\ PlatformsAboveFloor) =>
          /\ player'.position.y >= FloorY
          /\ ~Fell]_vars

\* a player spawned below y = -20 stands, after a tick, on the platform at y = 0
C35_Witness ==
    /\ PlatformsAboveFloor
    /\ GetPlayerSpawnPosition(level).y < FallY
    /\ frame >= 1
    /\ player.isAlive
    /\ player.isGrounded
    /\ player.position.y = PlatformSnap

(***************************************************************************)
(* The commands that change the level: from the start of the game the user *)
(* presses R at any moment, presses N and clicks the message's button when *)
(* no load is in flight, a descriptor may fail to load, and the frames     *)
(* between complete the levels.                                            *)
(***************************************************************************)
AnimateLevels == AnimateWithin(MaxLevelFrames)

NextLevels ==
    \/ AnimateLevels
    \/ PressR
    \/ PressNIdle
    \/ ClickMessageIdle
    \/ \E i \in 1..Len(loads) : LoadJSON(i)
    \/ \E i \in 1..Len(loads) : LoadFail(i)
    \/ \E i \in 1..Len(loads) : LoadObject(i)

SpecLevels == Init /\ [][NextLevels]_vars

\* the next-level command would change the state
NextLevelActs == ENABLED (PressN /\ vars' # vars)

\* C36: gameState.currentLevel is always one of 1, 2, 3, whatever the sequence of
\* next-level commands, level completions, restarts and failed loads; every load
\* in flight is of one of these levels, and the next-level command issued at
\* level 3 requests no load and changes no state.
C36_CurrentLevelInRange ==
    /\ gameState.currentLevel \in 1..LastLevel
    /\ \A i \in 1..Len(loads) : loads[i].n \in 1..LastLevel
    /\ gameState.currentLevel = LastLevel => ~NextLevelActs

\* the last level reached by next-level commands, one of whose loads failed, and
\* no load in flight: an unguarded command would start one
C36_Witness ==
    /\ gameState.currentLevel = LastLevel
    /\ level.currentLevel = LastLevel
    /\ loads = <<>>
    /\ message.visible
    /\ message.title = "Error"

(***************************************************************************)
(* Jumps and restarts: the user presses and releases the jump key over     *)
(* whole jump cycles and restarts the level at any moment, and the timer   *)
(* of a death fires.                                                       *)
(***************************************************************************)
AnimateHop == AnimateWithin(MaxJumpFrames)

NextHop ==
    \/ AnimateHop
    \/ KeyDown("Space")
    \/ KeyUp("Space")
    \/ PressR
    \/ PlayerDied

SpecHop == InitPlaying /\ [][NextHop]_vars

\* the step left the player as Player.reset(spawn) or Player.respawn() leaves it
ResetOrRespawned ==
    /\ player'.position \in {GetPlayerSpawnPosition(level), Vec(0, DefaultSpawnY, 0)}
    /\ player'.velocity = Vec(0, 0, 0)
    /\ ~player'.isGrounded

\* C37: the player is never both grounded and jumping, at the end of every tick
\* and after reset and respawn; isJumping turns true only in the tick of a
\* triggered jump, and turns false only at a grounding, a reset or a respawn.
C37_NeverGroundedAndJumping ==
    /\ [](~(player.isGrounded /\ player.isJumping))
    /\ [][/\ (~player.isJumping /\ player'.isJumping) => JumpTick
          /\ (player.isJumping /\ ~player'.isJumping) =>
                 player'.isGrounded \/ ResetOrRespawned]_vars

\* a player late in a jump: airborne, jumping and coming down, about to be
\* grounded
C37_Witness ==
    /\ frame >= 30
    /\ player.isAlive
    /\ player.isJumping
    /\ ~player.isGrounded
    /\ player.velocity.y <= 16 * Gravity
    /\ player.position.y < FloorY + 3 * JumpForce
    /\ gameState.currentLevel = 1

====
